---------------------------- MODULE Spec2Model ----------------------------
(***************************************************************************)
(* A model of the entity matcher and the field similarity functions of     *)
(* src/sap/consistency_evaluator.py.                                       *)
(*                                                                         *)
(* Python strings are sequences of one-character strings, Python's None is *)
(* the value None below, and a score (a Python float) is an exact rational *)
(* <<numerator, denominator>> in lowest terms with a positive denominator. *)
(***************************************************************************)
EXTENDS Integers, Sequences, FiniteSets, TLC

(***************************************************************************)
(* Rational arithmetic for the scores.                                     *)
(***************************************************************************)
Abs(n) == IF n < 0 THEN -n ELSE n

RECURSIVE Gcd(_, _)
Gcd(a, b) == IF b = 0 THEN a ELSE Gcd(b, a % b)

Rat(n, d) ==
    LET g == Gcd(Abs(n), Abs(d))
        s == IF d < 0 THEN -1 ELSE 1
    IN  <<(s * n) \div g, (s * d) \div g>>

RInt(n) == <<n, 1>>
RZero == <<0, 1>>
ROne == <<1, 1>>
RAdd(x, y) == Rat(x[1] * y[2] + y[1] * x[2], x[2] * y[2])
RMul(x, y) == Rat(x[1] * y[1], x[2] * y[2])
RDivInt(x, n) == Rat(x[1], x[2] * n)
RLess(x, y) == x[1] * y[2] < y[1] * x[2]
RLeq(x, y) == x[1] * y[2] <= y[1] * x[2]
RAbs(x) == <<Abs(x[1]), x[2]>>

RECURSIVE RSum(_)
RSum(xs) == IF xs = <<>> THEN RZero ELSE RAdd(Head(xs), RSum(Tail(xs)))

RECURSIVE RMax(_)
RMax(xs) ==
    IF Len(xs) = 1 THEN xs[1]
    ELSE LET r == RMax(Tail(xs)) IN IF RLess(xs[1], r) THEN r ELSE xs[1]

(***************************************************************************)
(* Python string operations on sequences of characters.                    *)
(***************************************************************************)
None == <<"None">>

UpperChars == <<"A", "B", "C", "D", "E", "F", "G", "H", "I", "J", "K", "L", "M",
                "N", "O", "P", "Q", "R", "S", "T", "U", "V", "W", "X", "Y", "Z">>
LowerChars == <<"a", "b", "c", "d", "e", "f", "g", "h", "i", "j", "k", "l", "m",
                "n", "o", "p", "q", "r", "s", "t", "u", "v", "w", "x", "y", "z">>
DigitChars == <<"0", "1", "2", "3", "4", "5", "6", "7", "8", "9">>

\* str.lower() of one character
LowerChar(c) ==
    IF \E i \in DOMAIN UpperChars : UpperChars[i] = c
    THEN LowerChars[CHOOSE i \in DOMAIN UpperChars : UpperChars[i] = c]
    ELSE c

\* str.lower()
lower(s) == [i \in 1..Len(s) |-> LowerChar(s[i])]

\* char.isdigit()
isdigit(c) == \E i \in DOMAIN DigitChars : DigitChars[i] = c

DigitValue(c) == (CHOOSE i \in DOMAIN DigitChars : DigitChars[i] = c) - 1

\* int(s) of a non-empty string of digits
RECURSIVE int(_)
int(s) ==
    IF Len(s) = 0 THEN 0
    ELSE 10 * int(SubSeq(s, 1, Len(s) - 1)) + DigitValue(s[Len(s)])

\* s.startswith(p)
startswith(s, p) == Len(p) <= Len(s) /\ SubSeq(s, 1, Len(p)) = p

\* sub in s
Contains(sub, s) ==
    \E i \in 0..(Len(s) - Len(sub)) : SubSeq(s, i + 1, i + Len(sub)) = sub

\* s.replace(c, '') for a character c
RECURSIVE RemoveChar(_, _)
RemoveChar(s, c) ==
    IF s = <<>> THEN <<>>
    ELSE IF Head(s) = c THEN RemoveChar(Tail(s), c)
    ELSE <<Head(s)>> \o RemoveChar(Tail(s), c)

\* s.strip(): the only whitespace of the model's alphabet is the space
RECURSIVE LStrip(_)
LStrip(s) == IF s # <<>> /\ Head(s) = " " THEN LStrip(Tail(s)) ELSE s
RECURSIVE RStrip(_)
RStrip(s) ==
    IF s # <<>> /\ s[Len(s)] = " " THEN RStrip(SubSeq(s, 1, Len(s) - 1)) ELSE s
strip(s) == RStrip(LStrip(s))

\* s.split(c): the list of the parts of s between the occurrences of c
RECURSIVE SplitFrom(_, _, _)
SplitFrom(s, c, cur) ==
    IF s = <<>> THEN <<cur>>
    ELSE IF Head(s) = c THEN <<cur>> \o SplitFrom(Tail(s), c, <<>>)
    ELSE SplitFrom(Tail(s), c, Append(cur, Head(s)))
split(s, c) == SplitFrom(s, c, <<>>)

Min(a, b) == IF a < b THEN a ELSE b
Max(a, b) == IF a < b THEN b ELSE a


(***************************************************************************)
(* Levenshtein.jaro: the Jaro similarity. Characters match when equal and  *)
(* no further apart than max(len1, len2) div 2 - 1; each character of s1   *)
(* takes the first free matching position of s2; t is half the number of   *)
(* matched characters that are out of order.                               *)
(***************************************************************************)
RECURSIVE JaroScan(_, _, _, _, _, _)
JaroScan(s1, s2, w, i, used, m1) ==
    IF i > Len(s1) THEN [used |-> used, m1 |-> m1]
    ELSE LET cand == {j \in Max(1, i - w)..Min(Len(s2), i + w) :
                         s2[j] = s1[i] /\ j \notin used}
         IN  IF cand = {} THEN JaroScan(s1, s2, w, i + 1, used, m1)
             ELSE LET j == CHOOSE x \in cand : \A y \in cand : x <= y
                  IN  JaroScan(s1, s2, w, i + 1, used \cup {j}, Append(m1, s1[i]))

\* the characters of s at the positions of `used`, in the order of s
RECURSIVE PickUsed(_, _, _)
PickUsed(s, used, j) ==
    IF j > Len(s) THEN <<>>
    ELSE IF j \in used THEN <<s[j]>> \o PickUsed(s, used, j + 1)
    ELSE PickUsed(s, used, j + 1)

jaro(s1, s2) ==
    IF Len(s1) = 0 /\ Len(s2) = 0 THEN ROne
    ELSE IF Len(s1) = 0 \/ Len(s2) = 0 THEN RZero
    ELSE LET w == Max(0, (Max(Len(s1), Len(s2)) \div 2) - 1)
             r == JaroScan(s1, s2, w, 1, {}, <<>>)
             m == Len(r.m1)
             m2 == PickUsed(s2, r.used, 1)
             t == Cardinality({k \in 1..m : r.m1[k] # m2[k]}) \div 2
         IN  IF m = 0 THEN RZero
             ELSE RDivInt(RAdd(RAdd(Rat(m, Len(s1)), Rat(m, Len(s2))),
                               Rat(m - t, m)), 3)

(***************************************************************************)
(* urllib.parse.unquote: every "%" followed by two hexadecimal digits is   *)
(* replaced by the character with that code; any other "%" is kept. The    *)
(* printable ASCII codes 32..126 decode to their character; the escapes of *)
(* the model's inputs are all in that range (any other code decodes to the *)
(* one replacement character); the quote, the backslash and the backtick   *)
(* are written by name.                                                    *)
(***************************************************************************)
AsciiChars ==
    <<" ", "!", "<quote>", "#", "$", "%", "&", "'", "(", ")", "*", "+", ",", "-", ".", "/",
      "0", "1", "2", "3", "4", "5", "6", "7", "8", "9", ":", ";", "<", "=", ">", "?",
      "@", "A", "B", "C", "D", "E", "F", "G", "H", "I", "J", "K", "L", "M", "N", "O",
      "P", "Q", "R", "S", "T", "U", "V", "W", "X", "Y", "Z", "[", "<backslash>", "]", "^", "_",
      "<backtick>", "a", "b", "c", "d", "e", "f", "g", "h", "i", "j", "k", "l", "m", "n", "o",
      "p", "q", "r", "s", "t", "u", "v", "w", "x", "y", "z", "{", "|", "}", "~">>

HexLetters == <<"a", "b", "c", "d", "e", "f">>

IsHex(c) == isdigit(c) \/ \E i \in DOMAIN HexLetters : HexLetters[i] = LowerChar(c)

HexValue(c) ==
    IF isdigit(c) THEN DigitValue(c)
    ELSE 9 + (CHOOSE i \in DOMAIN HexLetters : HexLetters[i] = LowerChar(c))

CharOfCode(n) == IF n - 31 \in DOMAIN AsciiChars THEN AsciiChars[n - 31] ELSE "<U+FFFD>"

RECURSIVE unquote(_)
unquote(s) ==
    IF s = <<>> THEN <<>>
    ELSE IF Head(s) = "%" /\ Len(s) >= 3 /\ IsHex(s[2]) /\ IsHex(s[3])
    THEN <<CharOfCode(16 * HexValue(s[2]) + HexValue(s[3]))>>
             \o unquote(SubSeq(s, 4, Len(s)))
    ELSE <<Head(s)>> \o unquote(Tail(s))

(***************************************************************************)
(* The missing-value checks and the equality score.                        *)
(***************************************************************************)
NE == <<"N", "E">>
NONE == <<"N", "O", "N", "E">>
NOASSERTION == <<"N", "O", "A", "S", "S", "E", "R", "T", "I", "O", "N">>
EmptyStr == <<>>

check_empty(v) == v = NONE \/ v = NOASSERTION \/ v = None

equal_cmp(v1, v2) ==
    IF (check_empty(v1) /\ check_empty(v2)) \/ (v1 = EmptyStr /\ v2 = EmptyStr)
    THEN RZero
    ELSE IF v1 = NE \/ v2 = NE \/ check_empty(v1) \/ check_empty(v2)
            \/ v1 = EmptyStr \/ v2 = EmptyStr
    THEN RZero
    ELSE IF lower(v1) = lower(v2) THEN ROne
    ELSE RZero

check_digit(version) ==
    (\A i \in 1..Len(version) : isdigit(version[i]) \/ version[i] = ".")
    /\ version # EmptyStr

(***************************************************************************)
(* compareName: re.sub removes, in one pass from the left, every           *)
(* occurrence of a scheme token and every space; the result is lower-cased *)
(* and scored by equal_cmp.                                                *)
(***************************************************************************)
SchemeTokens ==
    << <<"p", "u", "b", ":">>, <<"n", "p", "m", ":">>, <<"p", "i", "p", ":">>,
       <<"g", "o", ":">>, <<"a", "c", "t", "i", "o", "n", "s", ":">>,
       <<"c", "o", "m", "p", "o", "s", "e", "r", ":">>, <<"r", "u", "s", "t", ":">>,
       <<"r", "u", "b", "y", ":">>, <<"n", "u", "g", "e", "t", ":">>,
       <<"r", "u", "b", "y", "g", "e", "m", "s", ":">>,
       <<"d", "o", "c", "k", "e", "r", ":">>, <<"m", "a", "v", "e", "n", ":">>,
       <<"i", "c", "o", "n", "v", ":">>, <<" ">> >>

\* re.sub(pattern, '', s): at each position the first alternative that matches
\* is removed and the scan goes on after it
RECURSIVE RemoveTokens(_)
RemoveTokens(s) ==
    IF s = <<>> THEN <<>>
    ELSE LET hits == {k \in DOMAIN SchemeTokens : startswith(s, SchemeTokens[k])}
         IN  IF hits = {} THEN <<Head(s)>> \o RemoveTokens(Tail(s))
             ELSE LET k == CHOOSE x \in hits : \A y \in hits : x <= y
                  IN  RemoveTokens(SubSeq(s, Len(SchemeTokens[k]) + 1, Len(s)))

\* a variant of NormalizeName without the re.sub of lines 53-54
NormalizeNameKeepTokens(name) == lower(unquote(name))

NormalizeName(name) == lower(RemoveTokens(unquote(name)))

compareName(name1, name2) == equal_cmp(NormalizeName(name1), NormalizeName(name2))

(***************************************************************************)
(* version_consistency.                                                    *)
(***************************************************************************)
ManualVersion == <<"1", "5", ".", "4", ".", "6">>

\* a variant of NormalizeVersion without lines 173-176: a leading v stays
NormalizeVersionKeepV(version) == RemoveChar(strip(version), " ")

\* lines 171-176: strip, drop the spaces, drop one leading v or V
NormalizeVersion(version) ==
    LET v == RemoveChar(strip(version), " ")
    IN  IF startswith(v, <<"v">>) \/ startswith(v, <<"V">>) THEN Tail(v) ELSE v

\* a numeric identifier of a semantic version: 0, or digits with no leading 0
SemverNumeric(part) ==
    /\ part # EmptyStr
    /\ \A i \in 1..Len(part) : isdigit(part[i])
    /\ (Len(part) > 1 => part[1] # "0")

\* semver.Version.is_valid on the model's alphabet (no "-" and no "+", so no
\* prerelease and no build): major.minor.patch
SemverIsValid(version) ==
    LET parts == split(version, ".")
    IN  Len(parts) = 3 /\ \A i \in 1..3 : SemverNumeric(parts[i])

\* semver.Version(version): the constructor's first parameter is major, which
\* it converts with int(); int() of a string raises ValueError unless the
\* string is a number, and no string holding a "." is one.
SemverVersionRaises(version) == Contains(<<".">>, version)

\* lines 200-204: the weights by the number of components present
SemverWeights(count) ==
    IF count = 4 THEN <<Rat(6, 10), Rat(2, 10), Rat(1, 10), Rat(1, 10)>>
    ELSE IF count = 5
    THEN <<Rat(5, 10), Rat(2, 10), Rat(15, 100), Rat(1, 10), Rat(5, 100)>>
    ELSE <<Rat(7, 10), Rat(2, 10), Rat(1, 10)>>

\* lines 205-212: the loop over the components, were the two Version objects
\* built: it adds jaro * weight and stops after the first component whose
\* jaro is not 1
RECURSIVE SemverLoop(_, _, _, _, _)
SemverLoop(c1, c2, weights, i, score) ==
    IF i > Len(weights) THEN score
    ELSE LET jaro_score == jaro(c1[i], c2[i])
             next == RAdd(score, RMul(jaro_score, weights[i]))
         IN  IF next = ROne THEN ROne
             ELSE IF jaro_score # ROne THEN next
             ELSE SemverLoop(c1, c2, weights, i + 1, next)

\* lines 188-214. Both versions valid makes line 190 raise ValueError, which
\* line 213 swallows ("raised"); otherwise the block is skipped. In both cases
\* the dotted comparison of lines 216-241 decides the score.
SemverBlock(version1, version2) ==
    IF SemverIsValid(version1) /\ SemverIsValid(version2)
    THEN IF SemverVersionRaises(version1) \/ SemverVersionRaises(version2)
         THEN [outcome |-> "raised", score |-> RZero]
         ELSE [outcome |-> "returned",
               score |-> SemverLoop(split(version1, "."), split(version2, "."),
                                    SemverWeights(3), 1, RZero)]
    ELSE [outcome |-> "skipped", score |-> RZero]

\* lines 216-223
VersionWeights(length) ==
    IF length = 1 THEN <<ROne>>
    ELSE IF length = 2 THEN <<Rat(8, 10), Rat(2, 10)>>
    ELSE <<Rat(7, 10), Rat(2, 10), Rat(1, 10)>>

\* lines 232-240: the score of one position
PartScore(p1, p2, weight) ==
    IF p1 = p2 THEN weight
    ELSE IF check_digit(p1) /\ check_digit(p2)
    THEN IF Max(int(p1), int(p2)) = 0 THEN RZero
         ELSE RMul(Rat(Abs(int(p1) - int(p2)), Max(int(p1), int(p2))), weight)
    ELSE RMul(jaro(lower(p1), lower(p2)), weight)

\* lines 216-241: diffs, position by position; a position is scored when it is
\* the first or the one before it scored its full weight
RECURSIVE DottedDiffs(_, _, _, _, _, _)
DottedDiffs(v1_parts, v2_parts, weights, length, i, diffs) ==
    IF i > length THEN diffs
    ELSE LET run_flag == i = 1 \/ diffs[i - 1] = weights[i - 1]
             d == IF run_flag THEN PartScore(v1_parts[i], v2_parts[i], weights[i])
                  ELSE RZero
         IN  DottedDiffs(v1_parts, v2_parts, weights, length, i + 1,
                         [diffs EXCEPT ![i] = d])

DottedScore(version1, version2) ==
    LET v1_parts == split(version1, ".")
        v2_parts == split(version2, ".")
        len0 == Min(Len(v1_parts), Len(v2_parts))
        weights == VersionWeights(len0)
        length == IF len0 <= 3 THEN len0 ELSE 3
    IN  RSum(DottedDiffs(v1_parts, v2_parts, weights, length, 1,
                         <<RZero, RZero, RZero>>))

version_consistency(version1, version2) ==
    IF check_empty(version1) /\ check_empty(version2) THEN RZero
    ELSE IF check_empty(version1) \/ check_empty(version2)
            \/ version1 = NE \/ version2 = NE
    THEN RZero
    ELSE IF lower(version1) = lower(version2) THEN ROne
    ELSE IF version1 = EmptyStr \/ version2 = EmptyStr THEN RZero
    ELSE IF Contains(ManualVersion, version1) \/ Contains(ManualVersion, version2)
    THEN RZero
    ELSE LET v1 == NormalizeVersion(version1)
             v2 == NormalizeVersion(version2)
         IN  IF lower(v1) = lower(v2) THEN ROne
             ELSE IF SemverBlock(v1, v2).outcome = "returned"
             THEN SemverBlock(v1, v2).score
             ELSE DottedScore(v1, v2)

(***************************************************************************)
(* text_consistency and longest_common_substring_consistency_score.        *)
(***************************************************************************)
text_consistency(text1, text2) ==
    IF (check_empty(text1) /\ check_empty(text2))
       \/ (text1 = EmptyStr /\ text2 = EmptyStr)
    THEN RZero
    ELSE IF text1 = NE \/ text2 = NE \/ check_empty(text1) \/ check_empty(text2)
    THEN RZero
    ELSE IF lower(text1) = lower(text2) THEN ROne
    ELSE jaro(lower(unquote(text1)), lower(unquote(text2)))

\* dp[i][j] of lines 133-146: the length of the longest common suffix of
\* str1[:i] and str2[:j]
RECURSIVE CommonSuffix(_, _, _, _)
CommonSuffix(str1, str2, i, j) ==
    IF i = 0 \/ j = 0 THEN 0
    ELSE IF str1[i] = str2[j] THEN CommonSuffix(str1, str2, i - 1, j - 1) + 1
    ELSE 0

LongestLen(str1, str2) ==
    LET lens == {CommonSuffix(str1, str2, i, j) :
                    i \in 1..Len(str1), j \in 1..Len(str2)} \cup {0}
    IN  CHOOSE n \in lens : \A k \in lens : k <= n

longest_common_substring_consistency_score(str1, str2) ==
    IF (check_empty(str1) /\ check_empty(str2))
       \/ (str1 = EmptyStr /\ str2 = EmptyStr)
    THEN RZero
    ELSE IF str1 = NE \/ str2 = NE \/ check_empty(str1) \/ check_empty(str2)
            \/ str1 = EmptyStr \/ str2 = EmptyStr
    THEN RZero
    ELSE IF str1 = str2 THEN ROne
    ELSE LET u1 == unquote(str1)
             u2 == unquote(str2)
         IN  IF Max(Len(u1), Len(u2)) = 0 THEN RZero
             ELSE Rat(LongestLen(u1, u2), Max(Len(u1), Len(u2)))

(***************************************************************************)
(* purl_consistency. PackageURL.from_string is modelled for strings with   *)
(* no "?", "#" or "%" and no ":" after the scheme, as the model's          *)
(* identifiers are: pkg:type/namespace/name@version.                       *)
(***************************************************************************)
PkgScheme == <<"p", "k", "g">>

RECURSIVE LStripSlash(_)
LStripSlash(s) == IF s # <<>> /\ Head(s) = "/" THEN LStripSlash(Tail(s)) ELSE s

\* the index of the first (last) occurrence of character c in s, or 0
FirstIndex(s, c) ==
    IF \E i \in 1..Len(s) : s[i] = c
    THEN CHOOSE i \in 1..Len(s) : s[i] = c /\ \A j \in 1..(i - 1) : s[j] # c
    ELSE 0
LastIndex(s, c) ==
    IF \E i \in 1..Len(s) : s[i] = c
    THEN CHOOSE i \in 1..Len(s) : s[i] = c /\ \A j \in (i + 1)..Len(s) : s[j] # c
    ELSE 0

\* the non-blank segments of a path
RECURSIVE Segments(_)
Segments(parts) ==
    IF parts = <<>> THEN <<>>
    ELSE IF strip(Head(parts)) = <<>> THEN Segments(Tail(parts))
    ELSE <<Head(parts)>> \o Segments(Tail(parts))

\* "/".join(segs)
RECURSIVE JoinSlash(_)
JoinSlash(segs) ==
    IF segs = <<>> THEN <<>>
    ELSE IF Len(segs) = 1 THEN segs[1]
    ELSE segs[1] \o <<"/">> \o JoinSlash(Tail(segs))

\* value or None, as to_dict() gives an empty component
OrNone(v) == IF v = <<>> THEN None ELSE v

\* PackageURL.from_string(p).to_dict(): ok is FALSE when from_string raises
\* ValueError; d holds type, namespace, name, version, qualifiers, subpath
PackageURL_from_string(p) ==
    LET colon == FirstIndex(p, ":")
        scheme == SubSeq(p, 1, colon - 1)
        rest0 == LStripSlash(strip(SubSeq(p, colon + 1, Len(p))))
        slash == FirstIndex(rest0, "/")
        type == SubSeq(rest0, 1, slash - 1)
        path == LStripSlash(SubSeq(rest0, slash + 1, Len(rest0)))
        at == LastIndex(path, "@")
        version == IF at = 0 THEN <<>> ELSE SubSeq(path, at + 1, Len(path))
        remainder == IF at = 0 THEN path ELSE SubSeq(path, 1, at - 1)
        segs == Segments(split(strip(remainder), "/"))
        name == IF segs = <<>> THEN <<>> ELSE segs[Len(segs)]
        namespace == IF Len(segs) > 1 THEN JoinSlash(SubSeq(segs, 1, Len(segs) - 1))
                     ELSE <<>>
        bad == [ok |-> FALSE, d |-> <<>>]
    IN  IF strip(p) = <<>> THEN bad
        ELSE IF colon = 0 \/ scheme # PkgScheme THEN bad
        ELSE IF slash = 0 \/ type = <<>> THEN bad
        ELSE IF name = <<>> THEN bad
        ELSE [ok |-> TRUE,
              d |-> <<OrNone(lower(strip(type))), OrNone(namespace), OrNone(name),
                      OrNone(strip(version)), None, None>>]

\* the index of the key "version" in the dictionary
VersionKey == 4

\* lines 109-113: the score of one key of the two dictionaries
PurlKeyScore(key, x1, x2) ==
    LET s1 == IF x1 = None THEN EmptyStr ELSE x1
        s2 == IF x2 = None THEN EmptyStr ELSE x2
    IN  IF key = VersionKey THEN version_consistency(s1, s2)
        ELSE jaro(lower(s1), lower(s2))

\* a Python string is true unless it is None or empty
Truthy(p) == p # None /\ p # EmptyStr

purl_consistency(p1, p2) ==
    IF Truthy(p1) /\ Truthy(p2) /\ lower(p1) = lower(p2) THEN ROne
    ELSE IF p1 = NE \/ p2 = NE THEN RZero
    ELSE IF check_empty(p1) \/ check_empty(p2) THEN RZero
    ELSE LET p1_dict == PackageURL_from_string(p1)
             p2_dict == PackageURL_from_string(p2)
         IN  IF ~p1_dict.ok \/ ~p2_dict.ok THEN jaro(lower(p1), lower(p2))
             ELSE RDivInt(RSum([key \in 1..Len(p1_dict.d) |->
                                   PurlKeyScore(key, p1_dict.d[key], p2_dict.d[key])]),
                          Len(p1_dict.d))

(***************************************************************************)
(* deal_license and license_consistency. A license value is a record: kind *)
(* "none" (None), "str" (field str), "list" (field items, license values   *)
(* again), a dict: "dict_expression" (field str, the value of the key      *)
(* 'expression'), "dict_license" (field items, the entries of the value of *)
(* the key 'license': each of kind "id", "name" or "other_key") or         *)
(* "dict_other" (neither key), or "other" (a number, say).                 *)
(***************************************************************************)
LNone == [kind |-> "none", str |-> <<>>, items |-> <<>>]
LStr(s) == [kind |-> "str", str |-> s, items |-> <<>>]
LList(items) == [kind |-> "list", str |-> <<>>, items |-> items]
LDictExpression(s) == [kind |-> "dict_expression", str |-> s, items |-> <<>>]
LDictLicense(items) == [kind |-> "dict_license", str |-> <<>>, items |-> items]
LDictOther == [kind |-> "dict_other", str |-> <<>>, items |-> <<>>]
LOther == [kind |-> "other", str |-> <<>>, items |-> <<>>]
LEntry(key, value) == [kind |-> key, str |-> value, items |-> <<>>]

\* a call that raises an exception has no value
Raised == <<-1, 0>>

\* license == s, for a string s
LicenseIs(license, s) == license.kind = "str" /\ license.str = s

license_check_empty(license) ==
    license.kind = "none" \/ LicenseIs(license, NONE) \/ LicenseIs(license, NOASSERTION)

AND == <<"A", "N", "D">>
OR == <<"O", "R">>

\* list.remove(x) when x is in the list: the first occurrence goes
RemoveFirst(list, x) ==
    IF \E i \in 1..Len(list) : list[i] = x
    THEN LET i == CHOOSE n \in 1..Len(list) :
                      list[n] = x /\ \A m \in 1..(n - 1) : list[m] # x
         IN  SubSeq(list, 1, i - 1) \o SubSeq(list, i + 1, Len(list))
    ELSE list

\* lines 270-276
ExpressionTokens(expression) ==
    LET license_list == split(expression, " ")
    IN  IF Len(license_list) > 1
        THEN RemoveFirst(RemoveFirst(license_list, AND), OR)
        ELSE license_list

\* lines 290-300: the ids and names of the entries of license['license']
RECURSIVE LicenseEntryTokens(_)
LicenseEntryTokens(entries) ==
    IF entries = <<>> THEN <<>>
    ELSE (IF Head(entries).kind \in {"id", "name"} THEN <<Head(entries).str>>
          ELSE <<>>) \o LicenseEntryTokens(Tail(entries))

\* line 301 raises UnboundLocalError: a dict with neither key leaves
\* license_list unassigned; the exception goes through the loop of line 279
RECURSIVE DealLicenseRaises(_)
DealLicenseRaises(license) ==
    IF LicenseIs(license, NE) \/ LicenseIs(license, EmptyStr)
       \/ license_check_empty(license)
    THEN FALSE
    ELSE \/ license.kind = "dict_other"
         \/ /\ license.kind = "list"
            /\ \E i \in 1..Len(license.items) : DealLicenseRaises(license.items[i])

\* the list deal_license returns, when it returns
RECURSIVE deal_license(_)
deal_license(license) ==
    IF LicenseIs(license, NE) \/ LicenseIs(license, EmptyStr)
       \/ license_check_empty(license)
    THEN <<>>
    ELSE IF license.kind = "str" THEN ExpressionTokens(license.str)
    ELSE IF license.kind = "list"
    THEN IF license.items = <<>> THEN <<>>
         ELSE deal_license(Head(license.items))
                  \o deal_license(LList(Tail(license.items)))
    ELSE IF license.kind = "dict_expression" THEN ExpressionTokens(license.str)
    ELSE IF license.kind = "dict_license" THEN LicenseEntryTokens(license.items)
    ELSE <<>>

\* lines 324-326: the number of pairs (l1, l2) with l1 == l2
EqualPairs(license_list1, license_list2) ==
    Cardinality({pr \in (1..Len(license_list1)) \X (1..Len(license_list2)) :
                    license_list1[pr[1]] = license_list2[pr[2]]})

license_consistency(license1, license2) ==
    IF (license_check_empty(license1) /\ license_check_empty(license2))
       \/ (LicenseIs(license1, EmptyStr) /\ LicenseIs(license2, EmptyStr))
    THEN RZero
    ELSE IF LicenseIs(license1, NE) \/ LicenseIs(license2, NE)
            \/ license_check_empty(license1) \/ license_check_empty(license2)
            \/ LicenseIs(license1, EmptyStr) \/ LicenseIs(license2, EmptyStr)
    THEN RZero
    ELSE IF license1 = license2 THEN ROne
    ELSE IF DealLicenseRaises(license1) \/ DealLicenseRaises(license2) THEN Raised
    ELSE LET license_list1 == deal_license(license1)
             license_list2 == deal_license(license2)
         IN  IF Len(license_list1) = 0 \/ Len(license_list2) = 0 THEN RZero
             ELSE Rat(EqualPairs(license_list1, license_list2),
                      Max(Len(license_list1), Len(license_list2)))

(***************************************************************************)
(* external_ref_proc and deal_PVC (the spdx fields).                       *)
(***************************************************************************)
\* externalRefs is a string (isstr) or a list of references (list)
RefsStr == [isstr |-> TRUE, list |-> <<>>]
RefsList(refs) == [isstr |-> FALSE, list |-> refs]
Ref(type, locator) == [referenceType |-> type, referenceLocator |-> locator]

RECURSIVE RefLocators(_, _)
RefLocators(refs, want) ==
    IF refs = <<>> THEN <<>>
    ELSE LET e == Head(refs)
             kind == IF Contains(<<"c", "p", "e">>, e.referenceType) THEN "cpe"
                     ELSE IF Contains(<<"p", "u", "r", "l">>, e.referenceType) THEN "purl"
                     ELSE "other"
         IN  (IF kind = want THEN <<e.referenceLocator>> ELSE <<>>)
                 \o RefLocators(Tail(refs), want)

external_ref_proc(externalRefs) ==
    IF externalRefs.isstr THEN [cpe_list |-> <<>>, purl_list |-> <<>>]
    ELSE [cpe_list |-> RefLocators(externalRefs.list, "cpe"),
          purl_list |-> RefLocators(externalRefs.list, "purl")]

\* deal_PVC of a string or None
deal_PVC(PVC) ==
    IF PVC = NE \/ check_empty(PVC) \/ PVC = EmptyStr THEN None ELSE PVC

(***************************************************************************)
(* The entities of the two documents. A document is an ordered mapping     *)
(* from keys to entities; here a sequence of entity numbers, the key of an *)
(* entry being its position, and the entity of number e under a schema     *)
(* being Entity(standard, e).                                              *)
(***************************************************************************)
Purl_a1 == <<"p", "k", "g", ":", "t", "/", "a", "@", "1">>
Purl_a2 == <<"p", "k", "g", ":", "t", "/", "a", "@", "2">>

CdxPkg(name, version, purl, licenses) ==
    [name |-> name, version |-> version, purl |-> purl, author |-> NE,
     type |-> <<"l", "i", "b", "r", "a", "r", "y">>, cpe |-> NE, licenses |-> licenses]

SpdxPkg(name, versionInfo, refs) ==
    [name |-> name, versionInfo |-> versionInfo, externalRefs |-> refs,
     originator |-> NOASSERTION, supplier |-> <<"O", "r", "g">>,
     copyrightText |-> NONE, packageVerificationCode |-> None,
     downloadLocation |-> <<"x">>, licenseConcluded |-> LStr(NOASSERTION),
     licenseDeclared |-> LStr(<<"M", "I", "T">>)]

CdxEntities ==
    << CdxPkg(<<"n", "p", "m", ":", "A">>, <<"1">>, Purl_a1, LStr(<<"M", "I", "T">>)),
       CdxPkg(<<"a">>, <<"2">>, Purl_a1, LList(<<LStr(<<"M", "I", "T">>), LStr(<<"M", "I", "T">>)>>)),
       CdxPkg(<<"a", " ">>, <<"2">>, NE, LNone),
       CdxPkg(<<"b">>, <<"1">>, Purl_a1, LStr(<<"M", "I", "T", " ", "M", "I", "T">>)) >>

SpdxEntities ==
    << SpdxPkg(<<"n", "p", "m", ":", "A">>, <<"1">>, RefsList(<<Ref(<<"p", "u", "r", "l">>, Purl_a1)>>)),
       SpdxPkg(<<"a">>, <<"2">>,
               RefsList(<<Ref(<<"c", "p", "e", "2", "3", "T", "y", "p", "e">>, <<"c", "p", "e">>), Ref(<<"p", "u", "r", "l">>, Purl_a2),
                          Ref(<<"p", "u", "r", "l">>, Purl_a1)>>)),
       SpdxPkg(<<"a", " ">>, <<"2">>, RefsStr),
       SpdxPkg(<<"b">>, <<"1">>, RefsList(<<Ref(<<"p", "u", "r", "l">>, Purl_a1)>>)) >>

Entity(std, e) == IF std = "cdx" THEN CdxEntities[e] ELSE SpdxEntities[e]

EntityIds == DOMAIN CdxEntities

\* the acceptance thresholds: the default of spdx_consistency (-1), the one of
\* the main block (2.0) and the default of cdx_consistency (2.4)
Thresholds == {Rat(-1, 1), Rat(2, 1), Rat(24, 10)}

\* the sizes of the two documents
MaxA == 2
MaxB == 2

SeqsUpTo(set, lo, hi) == UNION {[1..n -> set] : n \in lo..hi}

(***************************************************************************)
(* best_triple_match, one candidate at a time.                             *)
(***************************************************************************)
\* line 66: the version of an entity
EntityVersion(pkg) ==
    IF "version" \in DOMAIN pkg THEN pkg.version ELSE pkg.versionInfo

\* lines 69-81: the identifier score of two entities
MatchPurlScore(pkg1, pkg2, std) ==
    IF std = "cdx" THEN purl_consistency(pkg1.purl, pkg2.purl)
    ELSE LET purl1 == external_ref_proc(pkg1.externalRefs).purl_list
             purl2 == external_ref_proc(pkg2.externalRefs).purl_list
             temp_purl_score ==
                 [n \in 1..(Len(purl1) * Len(purl2)) |->
                     purl_consistency(purl1[((n - 1) \div Len(purl2)) + 1],
                                      purl2[((n - 1) % Len(purl2)) + 1])]
         IN  IF Len(temp_purl_score) > 0 THEN RMax(temp_purl_score) ELSE RZero

\* line 64
NameScore(pkg1, pkg2) == compareName(pkg1.name, pkg2.name)

\* line 82
TripleScore(pkg1, pkg2, std) ==
    RAdd(RAdd(NameScore(pkg1, pkg2),
              version_consistency(EntityVersion(pkg1), EntityVersion(pkg2))),
         MatchPurlScore(pkg1, pkg2, std))

\* the scores of every pair of entities, computed once
NameTable ==
    [std \in {"cdx", "spdx"} |-> [e1 \in EntityIds |-> [e2 \in EntityIds |->
        NameScore(Entity(std, e1), Entity(std, e2))]]]
TripleTable ==
    [std \in {"cdx", "spdx"} |-> [e1 \in EntityIds |-> [e2 \in EntityIds |->
        TripleScore(Entity(std, e1), Entity(std, e2), std)]]]

(***************************************************************************)
(* The per-pair score vectors of cdx_consistency and spdx_consistency.     *)
(***************************************************************************)
\* lines 371-377
CdxResult(pkg1, pkg2) ==
    << text_consistency(pkg1.author, pkg2.author),
       equal_cmp(pkg1.type, pkg2.type),
       purl_consistency(pkg1.purl, pkg2.purl),
       longest_common_substring_consistency_score(pkg1.cpe, pkg2.cpe),
       license_consistency(pkg1.licenses, pkg2.licenses),
       version_consistency(pkg1.version, pkg2.version) >>

\* lines 538-539 / 549-550: the pairs of the two nested loops, in order
CrossPairs(list1, list2) ==
    [n \in 1..(Len(list1) * Len(list2)) |->
        <<list1[((n - 1) \div Len(list2)) + 1], list2[((n - 1) % Len(list2)) + 1]>>]

\* lines 537-556: the sum of the scores of all cross pairs, a score of -1
\* counting as 1, over the length of the longer list, or 0 when both lists
\* are empty
CrossScore(pair_scores, list1, list2) ==
    IF Max(Len(list1), Len(list2)) = 0 THEN RZero
    ELSE RDivInt(RSum([n \in DOMAIN pair_scores |->
                          IF pair_scores[n] = Rat(-1, 1) THEN ROne
                          ELSE pair_scores[n]]),
                 Max(Len(list1), Len(list2)))

\* lines 528-561
SpdxResult(pkg1, pkg2) ==
    LET r1 == external_ref_proc(pkg1.externalRefs)
        r2 == external_ref_proc(pkg2.externalRefs)
    IN  << text_consistency(pkg1.originator, pkg2.originator),
           text_consistency(pkg1.supplier, pkg2.supplier),
           text_consistency(pkg1.copyrightText, pkg2.copyrightText),
           version_consistency(pkg1.versionInfo, pkg2.versionInfo),
           equal_cmp(deal_PVC(pkg1.packageVerificationCode),
                     deal_PVC(pkg2.packageVerificationCode)),
           CrossScore([n \in DOMAIN CrossPairs(r1.cpe_list, r2.cpe_list) |->
                          longest_common_substring_consistency_score(
                              CrossPairs(r1.cpe_list, r2.cpe_list)[n][1],
                              CrossPairs(r1.cpe_list, r2.cpe_list)[n][2])],
                      r1.cpe_list, r2.cpe_list),
           CrossScore([n \in DOMAIN CrossPairs(r1.purl_list, r2.purl_list) |->
                          purl_consistency(
                              CrossPairs(r1.purl_list, r2.purl_list)[n][1],
                              CrossPairs(r1.purl_list, r2.purl_list)[n][2])],
                      r1.purl_list, r2.purl_list),
           longest_common_substring_consistency_score(pkg1.downloadLocation,
                                                      pkg2.downloadLocation),
           license_consistency(pkg1.licenseConcluded, pkg2.licenseConcluded),
           license_consistency(pkg1.licenseDeclared, pkg2.licenseDeclared) >>

\* a variant of StoredVector: every component with its sign changed
StoredVectorNegated(result) == [i \in 1..Len(result) |-> RMul(Rat(-1, 1), result[i])]

\* lines 378-384 and 562-568: a vector with a negative component is stored as
\* its absolute values
StoredVector(result) ==
    IF \E i \in 1..Len(result) : RLess(result[i], RZero)
    THEN [i \in 1..Len(result) |-> RAbs(result[i])]
    ELSE result

PairResult(std, e1, e2) ==
    IF std = "cdx" THEN CdxResult(Entity(std, e1), Entity(std, e2))
    ELSE SpdxResult(Entity(std, e1), Entity(std, e2))

ResultTable ==
    [std \in {"cdx", "spdx"} |-> [e1 \in EntityIds |-> [e2 \in EntityIds |->
        StoredVector(PairResult(std, e1, e2))]]]

\* a variant of ZeroVector: a vector of no components
ZeroVectorEmpty(std) == <<>>

\* lines 386 and 570
ZeroVector(std) ==
    IF std = "cdx" THEN [i \in 1..6 |-> RZero] ELSE [i \in 1..10 |-> RZero]

(***************************************************************************)
(* The collections of a document that is not a mapping, and the file part  *)
(* of spdx_consistency.                                                    *)
(***************************************************************************)

\* a collection that is the string 'NE' in place of a mapping; a mapping is a
\* sequence of entity numbers, all positive
NotEvaluated == <<0>>

\* lines 337-338 / 432-434: cmp_flag / pkg_flag
CmpFlag(collection1, collection2) ==
    collection1 # NotEvaluated /\ collection2 # NotEvaluated

\* a variant of FilesFlag: True when both documents hold a file collection
FilesFlagWhenPresent(collection1, collection2) ==
    collection1 # NotEvaluated /\ collection2 # NotEvaluated

\* lines 438-442: files_flag is False before the test and False after it
FilesFlag(collection1, collection2) ==
    IF collection1 = NotEvaluated \/ collection2 = NotEvaluated THEN FALSE ELSE FALSE

\* line 455: the most files a collection may hold to be compared
FileCap == 2000

\* lines 43-48
deal_filename(name) ==
    IF startswith(name, <<".", "/">>) THEN SubSeq(name, 3, Len(name))
    ELSE IF startswith(name, <<"/">>) THEN Tail(name)
    ELSE name

Checksum(algorithm, checksumValue) ==
    [algorithm |-> algorithm, checksumValue |-> checksumValue]

SpdxFile(name, checksums) == [name |-> name, checksums |-> checksums]

Sha1 == <<"S", "H", "A", "1">>
Md5 == <<"M", "D", "5">>

FileEntities ==
    << SpdxFile(<<".", "/", "a">>, <<Checksum(Sha1, <<"c", "1">>)>>),
       SpdxFile(<<"/", "A">>, <<Checksum(Sha1, <<"C", "1">>),
                                Checksum(Md5, <<"c", "2">>)>>),
       SpdxFile(<<"b">>, <<>>) >>

FileIds == DOMAIN FileEntities

\* the systematically enumerated file collections hold up to MaxFiles files
MaxFiles == 2

\* a file collection over the cap
ManyFiles == [n \in 1..(FileCap + 1) |-> 1]

\* line 460: the names of the two files match
FileNameMatches(f1, f2) ==
    compareName(deal_filename(f1.name), deal_filename(f2.name)) = ROne

\* lines 464-497: the checksum score of two files
ChecksumScore(f1, f2) ==
    IF Len(f1.checksums) = 0 \/ Len(f2.checksums) = 0 THEN RZero
    ELSE IF Len(f1.checksums) = 1 /\ Len(f2.checksums) = 1
    THEN equal_cmp(f1.checksums[1].checksumValue, f2.checksums[1].checksumValue)
    ELSE RDivInt(RSum([n \in DOMAIN CrossPairs(f1.checksums, f2.checksums) |->
                          LET c1 == CrossPairs(f1.checksums, f2.checksums)[n][1]
                              c2 == CrossPairs(f1.checksums, f2.checksums)[n][2]
                          IN  IF c1.algorithm = c2.algorithm
                              THEN equal_cmp(c1.checksumValue, c2.checksumValue)
                              ELSE RZero]),
                 Max(Len(f1.checksums), Len(f2.checksums)))

\* lines 454-461: the keys of files1 that get into matched_files; none when a
\* collection is over the cap, as the loop is left in its first iteration
MatchedFiles(files1, files2) ==
    IF Len(files1) > FileCap \/ Len(files2) > FileCap THEN <<>>
    ELSE SelectSeq([n \in 1..Len(files1) |-> n],
                   LAMBDA key1 : \E key2 \in 1..Len(files2) :
                       FileNameMatches(FileEntities[files1[key1]],
                                       FileEntities[files2[key2]]))

\* lines 458-460: the first file of files2 whose name matches
FirstFileMatch(files1, files2, key1) ==
    CHOOSE key2 \in 1..Len(files2) :
        /\ FileNameMatches(FileEntities[files1[key1]], FileEntities[files2[key2]])
        /\ \A k \in 1..(key2 - 1) :
               ~FileNameMatches(FileEntities[files1[key1]], FileEntities[files2[k]])

\* lines 453-505: the file part when files_flag is True: files_info and the
\* three file statistics
FilesCompared(files1, files2) ==
    LET matched_files == MatchedFiles(files1, files2)
        scores == [i \in 1..Len(matched_files) |->
                      <<ChecksumScore(
                            FileEntities[files1[matched_files[i]]],
                            FileEntities[files2[FirstFileMatch(files1, files2,
                                                               matched_files[i])]])>>]
    IN  [files_info |-> IF Len(scores) = 0 THEN <<<<RZero>>>> ELSE scores,
         statistic |-> <<Len(files1), Len(files2), Len(matched_files)>>]

\* a variant of FilesSkipped: no file statistics are added
FilesSkippedNoStatistics == [files_info |-> <<<<RZero>>>>, statistic |-> <<>>]

\* lines 507-509: the file part when files_flag is False
FilesSkipped == [files_info |-> <<<<RZero>>>>, statistic |-> <<0, 0, 0>>]

\* lines 453-509
FilesPart(files1, files2) ==
    IF FilesFlag(files1, files2) THEN FilesCompared(files1, files2)
    ELSE FilesSkipped

\* line 514: pkg_info when a package collection is 'NE': ten numbers, not a
\* list of vectors
FlatZeros == [i \in 1..10 |-> RZero]

(***************************************************************************)
(* run_consistency_evaluator's means (lines 675 and 678-679).              *)
(***************************************************************************)

\* a number, not a list: a score is a pair <<numerator, denominator>>, and no
\* score vector of the model has two components
IsNumber(x) == Len(x) = 2

\* zip(*vectors): the columns, as many as the shortest vector has components
Columns(vectors) ==
    IF Len(vectors) = 0 THEN <<>>
    ELSE LET width == CHOOSE w \in 0..10 :
                          /\ \A i \in 1..Len(vectors) : w <= Len(vectors[i])
                          /\ \E i \in 1..Len(vectors) : w = Len(vectors[i])
         IN  [j \in 1..width |-> [i \in 1..Len(vectors) |-> vectors[i][j]]]

\* [sum(x) / len(x) for x in zip(*vectors)]; zip raises TypeError on an
\* argument that is a number
Means(vectors) ==
    IF \E i \in 1..Len(vectors) : IsNumber(vectors[i])
    THEN [raised |-> TRUE, mean |-> <<>>]
    ELSE [raised |-> FALSE,
          mean |-> [j \in DOMAIN Columns(vectors) |->
                       RDivInt(RSum(Columns(vectors)[j]), Len(vectors))]]

(***************************************************************************)
(* The state.                                                              *)
(***************************************************************************)
VARIABLES
    standard,        \* "cdx" or "spdx": the schema of the two documents
    threshold,       \* triple_score_threshold
    pkgs1,           \* document A (component1 / pkgs1): entity numbers by key
    pkgs2,           \* document B (component2 / pkgs2)
    pc,              \* where the comparison is: "loop", "scan", "done";
                     \* "call", "returned" for a single function
    k1,              \* the key of A the aggregator's loop is at
    k2,              \* the key of B the matcher's loop is at
    best_score,      \* best_triple_match's best_score
    best_k2,         \* best_triple_match's best_k2 (NoKey is None)
    scored,          \* the candidates scored in this call: <<key, triple_score>>
    stopped,         \* the matcher's loop has left through the break of line 87
    ret,             \* the last call's return value <<key, score>>
    matched_pkg,     \* the keys of A that were matched
    matched_to,      \* for each of them, the key of B it was matched to
    pkg_info,        \* all_matched_scores['pkg_info']
    statistic_info,  \* all_matched_scores['statistic_info']
    fn,              \* the similarity function called on its own
    arg1, arg2,      \* its two arguments
    result,          \* what it returned
    files1,          \* document A's file collection (files1)
    files2,          \* document B's file collection (files2)
    files_info,      \* all_matched_scores['files_info']
    row              \* the row run_consistency_evaluator makes of the result

vars == <<standard, threshold, pkgs1, pkgs2, pc, k1, k2, best_score, best_k2,
          scored, stopped, ret, matched_pkg, matched_to, pkg_info,
          statistic_info, fn, arg1, arg2, result, files1, files2, files_info,
          row>>

docVars == <<standard, threshold, pkgs1, pkgs2>>
matchVars == <<k1, k2, best_score, best_k2, scored, stopped, ret, matched_pkg,
               matched_to, pkg_info, statistic_info>>
callVars == <<fn, arg1, arg2, result>>
fileVars == <<files1, files2>>

\* no row yet
NoRow == [raised |-> FALSE, statistic_info |-> <<>>, pkg_info |-> <<>>,
          files_info |-> <<>>]

\* the package collections of the two documents: mappings, or 'NE'
Collections1 == SeqsUpTo(EntityIds, 1, MaxA) \cup {NotEvaluated}
Collections2 == SeqsUpTo(EntityIds, 0, MaxB) \cup {NotEvaluated}

\* best_k2 = None
NoKey == 0

(***************************************************************************)
(* cdx_consistency / spdx_consistency over two documents that both hold a  *)
(* package collection.                                                     *)
(***************************************************************************)
Init ==
    /\ standard \in {"cdx", "spdx"}
    /\ threshold \in Thresholds
    /\ pkgs1 \in Collections1
    /\ pkgs2 \in Collections2
    /\ pc = "start"
    /\ k1 = 1
    /\ k2 = 1
    /\ best_score = Rat(-1, 1)
    /\ best_k2 = NoKey
    /\ scored = <<>>
    /\ stopped = FALSE
    /\ ret = <<NoKey, RZero>>
    /\ matched_pkg = <<>>
    /\ matched_to = <<>>
    /\ pkg_info = <<>>
    /\ statistic_info = <<>>
    /\ files1 = NotEvaluated
    /\ files2 = NotEvaluated
    /\ files_info = <<>>
    /\ row = NoRow
    /\ fn = "none"
    /\ arg1 = <<>>
    /\ arg2 = <<>>
    /\ result = RZero

\* lines 341-358 / 444-509: the result is set up; spdx_consistency goes through
\* the file part
Start ==
    /\ pc = "start"
    /\ IF standard = "spdx"
       THEN \E part \in {FilesPart(files1, files2)} :
                /\ files_info' = part.files_info
                /\ statistic_info' = statistic_info \o part.statistic
       ELSE UNCHANGED <<files_info, statistic_info>>
    /\ pc' = "loop"
    /\ UNCHANGED <<docVars, k1, k2, best_score, best_k2, scored, stopped, ret,
                   matched_pkg, matched_to, pkg_info, callVars, fileVars, row>>

\* lines 359-362 / 511-515: a package collection is 'NE'
NotEvaluatedReturn ==
    /\ pc = "loop"
    /\ ~CmpFlag(pkgs1, pkgs2)
    /\ statistic_info' = statistic_info \o <<0, 0, 0>>
    /\ pkg_info' = IF standard = "cdx" THEN <<ZeroVector(standard)>> ELSE FlatZeros
    /\ pc' = "done"
    /\ UNCHANGED <<docVars, k1, k2, best_score, best_k2, scored, stopped, ret,
                   matched_pkg, matched_to, callVars, fileVars, files_info, row>>

\* lines 363-365 / 518-522 and 61-62: the aggregator takes the next entity of A
\* and calls best_triple_match
CallMatch ==
    /\ pc = "loop"
    /\ CmpFlag(pkgs1, pkgs2)
    /\ k1 <= Len(pkgs1)
    /\ pc' = "scan"
    /\ k2' = 1
    /\ best_score' = Rat(-1, 1)
    /\ best_k2' = NoKey
    /\ scored' = <<>>
    /\ stopped' = FALSE
    /\ UNCHANGED <<docVars, k1, ret, matched_pkg, matched_to, pkg_info,
                   statistic_info, callVars, fileVars, files_info, row>>

\* a variant of CandidateKeys: the keys of B earlier matches took are left out
CandidateKeysFree(doc, taken) ==
    SelectSeq([n \in 1..Len(doc) |-> n],
              LAMBDA n : \A i \in DOMAIN taken : taken[i] # n)

\* lines 365 / 522 and 63: the keys the matcher's loop goes through, in order:
\* every key of B, whichever of them earlier source entities were matched to
CandidateKeys(doc, taken) == [n \in 1..Len(doc) |-> n]

\* a variant of NameMatches without the name gate of line 65
NameMatchesAny(name_score) == TRUE

\* line 65: only a candidate whose name matches is scored
NameMatches(name_score) == name_score = ROne

\* a variant of Perfect: the break of lines 86-87 is left out
PerfectNever(score) == FALSE

\* a variant of Improves: line 83 with >= for >
ImprovesOrTies(triple_score, best) == RLeq(best, triple_score)

\* line 83: the candidate replaces the best one
Improves(triple_score, best) == RLess(best, triple_score)

\* line 86: the scan stops
Perfect(score) == score = Rat(3, 1)

\* lines 63-87: one iteration of the matcher's loop
ScanCandidate ==
    /\ pc = "scan"
    /\ ~stopped
    /\ \E keys \in {CandidateKeys(pkgs2, matched_to)} :
           /\ k2 <= Len(keys)
           /\ \E name_score \in {NameTable[standard][pkgs1[k1]][pkgs2[keys[k2]]]} :
              \E triple_score \in {TripleTable[standard][pkgs1[k1]][pkgs2[keys[k2]]]} :
              \E better \in {Improves(triple_score, best_score)} :
              \E new_best \in {IF better THEN triple_score ELSE best_score} :
                  IF NameMatches(name_score)
                  THEN /\ scored' = Append(scored, <<keys[k2], triple_score>>)
                       /\ best_score' = new_best
                       /\ best_k2' = IF better THEN keys[k2] ELSE best_k2
                       /\ stopped' = Perfect(new_best)
                  ELSE UNCHANGED <<scored, best_score, best_k2, stopped>>
    /\ k2' = k2 + 1
    /\ UNCHANGED <<docVars, pc, k1, ret, matched_pkg, matched_to, pkg_info,
                   statistic_info, callVars, fileVars, files_info, row>>

\* a variant of Accepted without the threshold of line 88
AcceptedAny(score, limit) == TRUE

\* lines 88-91: what best_triple_match returns
Accepted(score, limit) == RLeq(limit, score)

MatchReturn(key, score, limit) ==
    IF Accepted(score, limit) THEN <<key, score>> ELSE <<NoKey, RZero>>

\* lines 88-91 and 366-384 / 523-568: the matcher returns and the aggregator
\* records the match, if there is one
ReturnMatch ==
    /\ pc = "scan"
    /\ stopped \/ k2 > Len(CandidateKeys(pkgs2, matched_to))
    /\ \E r \in {MatchReturn(best_k2, best_score, threshold)} :
           /\ ret' = r
           /\ IF r[1] # NoKey
              THEN /\ matched_pkg' = Append(matched_pkg, k1)
                   /\ matched_to' = Append(matched_to, r[1])
                   /\ pkg_info' = Append(pkg_info,
                          ResultTable[standard][pkgs1[k1]][pkgs2[r[1]]])
              ELSE UNCHANGED <<matched_pkg, matched_to, pkg_info>>
    /\ k1' = k1 + 1
    /\ pc' = "loop"
    /\ UNCHANGED <<docVars, k2, best_score, best_k2, scored, stopped,
                   statistic_info, callVars, fileVars, files_info, row>>

\* lines 385-389 / 569-575: after the loop
Finish ==
    /\ pc = "loop"
    /\ CmpFlag(pkgs1, pkgs2)
    /\ k1 > Len(pkgs1)
    /\ pkg_info' = IF Len(pkg_info) = 0 THEN <<ZeroVector(standard)>> ELSE pkg_info
    /\ statistic_info' = statistic_info
                            \o <<Len(pkgs1), Len(pkgs2), Len(matched_pkg)>>
    /\ pc' = "done"
    /\ UNCHANGED <<docVars, k1, k2, best_score, best_k2, scored, stopped, ret,
                   matched_pkg, matched_to, callVars, fileVars, files_info, row>>

\* lines 672-679: run_consistency_evaluator makes the row of the result: the
\* statistics and the means of the score vectors, column by column
WriteRow ==
    /\ pc = "done"
    /\ \E pkg_means \in {Means(pkg_info)} :
       \E files_means \in {IF standard = "spdx" THEN Means(files_info)
                           ELSE [raised |-> FALSE, mean |-> <<>>]} :
           row' = IF pkg_means.raised \/ files_means.raised
                  THEN [raised |-> TRUE, statistic_info |-> <<>>,
                        pkg_info |-> <<>>, files_info |-> <<>>]
                  ELSE [raised |-> FALSE, statistic_info |-> statistic_info,
                        pkg_info |-> pkg_means.mean,
                        files_info |-> files_means.mean]
    /\ pc' = "written"
    /\ UNCHANGED <<docVars, matchVars, callVars, fileVars, files_info>>

Next ==
    \/ Start
    \/ NotEvaluatedReturn
    \/ CallMatch
    \/ ScanCandidate
    \/ ReturnMatch
    \/ Finish
    \/ WriteRow

Spec == Init /\ [][Next]_vars

(***************************************************************************)
(* spdx_consistency over documents whose file collections vary.            *)
(***************************************************************************)
FileCollections == SeqsUpTo(FileIds, 0, MaxFiles) \cup {NotEvaluated, ManyFiles}

InitFiles ==
    /\ standard = "spdx"
    /\ threshold = Rat(2, 1)
    /\ pkgs1 \in {NotEvaluated, <<1>>}
    /\ pkgs2 \in {NotEvaluated, <<1>>}
    /\ files1 \in FileCollections
    /\ files2 \in FileCollections
    /\ files_info = <<>>
    /\ row = NoRow
    /\ pc = "start"
    /\ k1 = 1
    /\ k2 = 1
    /\ best_score = Rat(-1, 1)
    /\ best_k2 = NoKey
    /\ scored = <<>>
    /\ stopped = FALSE
    /\ ret = <<NoKey, RZero>>
    /\ matched_pkg = <<>>
    /\ matched_to = <<>>
    /\ pkg_info = <<>>
    /\ statistic_info = <<>>
    /\ fn = "none"
    /\ arg1 = <<>>
    /\ arg2 = <<>>
    /\ result = RZero

SpecFiles == InitFiles /\ [][Next]_vars

(***************************************************************************)
(* The matcher's properties.                                               *)
(***************************************************************************)

\* a call of best_triple_match has returned: the source entity was pkgs1[k1-1]
MatchReturned == pc \in {"loop", "done", "written"} /\ k1 > 1

\* the name of entity number e of a document
NameOf(e) == Entity(standard, e).name

\* the scores of the candidates scored in the last call
ScoredScores == [i \in DOMAIN scored |-> scored[i][2]]

\* C1: whatever the threshold, the key best_triple_match returns, and every
\* key the aggregator recorded a match to, is the key of an entity of B whose
\* name compareName scores 1 against the source entity's name
C1_ReturnedKeyPassesNameGate ==
    /\ (MatchReturned /\ ret[1] # NoKey)
           => compareName(NameOf(pkgs1[k1 - 1]), NameOf(pkgs2[ret[1]])) = ROne
    /\ \A i \in DOMAIN matched_pkg :
           compareName(NameOf(pkgs1[matched_pkg[i]]),
                       NameOf(pkgs2[matched_to[i]])) = ROne

\* C1's case: a key was returned under the threshold -1, which accepts every
\* score, while B also holds an entity whose name does not match
C1_Witness ==
    /\ MatchReturned
    /\ ret[1] # NoKey
    /\ threshold = Rat(-1, 1)
    /\ \E k \in DOMAIN pkgs2 :
           compareName(NameOf(pkgs1[k1 - 1]), NameOf(pkgs2[k])) # ROne

\* C2: best_triple_match returns a key exactly when a candidate was scored and
\* the best triple score found is at least the threshold, and then it returns
\* that score; in every other case, a threshold of -1 with no name-matching
\* candidate included, the returned key is None and the source entity is not
\* among the matched ones
C2_KeyOnlyAtThreshold ==
    MatchReturned =>
        IF scored # <<>> /\ RLeq(threshold, RMax(ScoredScores))
        THEN /\ ret[1] # NoKey
             /\ ret[2] = RMax(ScoredScores)
        ELSE /\ ret[1] = NoKey
             /\ \A i \in DOMAIN matched_pkg : matched_pkg[i] # k1 - 1

\* C2's case: candidates were scored, the best of them is below the
\* threshold, and the call returned no key
C2_Witness ==
    /\ MatchReturned
    /\ scored # <<>>
    /\ RLess(RMax(ScoredScores), threshold)
    /\ ret[1] = NoKey

\* C3: the key returned is that of a scored candidate whose triple score is
\* the maximum over the candidates scored, and the first such candidate in the
\* order of the scan; the scores are those of the three field similarities
C3_FirstMaximumWins ==
    /\ \A i \in DOMAIN scored :
           /\ pc = "scan" => scored[i][2] =
                  TripleTable[standard][pkgs1[k1]][pkgs2[scored[i][1]]]
           /\ \A j \in DOMAIN scored : i < j => scored[i][1] < scored[j][1]
    /\ (MatchReturned /\ ret[1] # NoKey) =>
           \E i \in DOMAIN scored :
               /\ scored[i][1] = ret[1]
               /\ scored[i][2] = ret[2]
               /\ \A j \in DOMAIN scored : RLeq(scored[j][2], scored[i][2])
               /\ \A j \in DOMAIN scored :
                      j < i => RLess(scored[j][2], scored[i][2])

\* C3's case: two scored candidates tie at the maximum and the earlier one's
\* key is returned
C3_Witness ==
    /\ MatchReturned
    /\ ret[1] # NoKey
    /\ \E i, j \in DOMAIN scored :
           /\ i < j
           /\ scored[i][1] = ret[1]
           /\ scored[j][2] = scored[i][2]

\* C4: no match takes an entity of B away: document B stays as it was, and a
\* scan that did not stop at a perfect score has scored every entity of B
\* whose name matches the source entity's, those earlier source entities were
\* matched to included
C4_TargetsStayAvailable ==
    /\ [][pkgs2' = pkgs2]_vars
    /\ [](MatchReturned /\ ~stopped =>
              \A k \in DOMAIN pkgs2 :
                  NameTable[standard][pkgs1[k1 - 1]][pkgs2[k]] = ROne
                      => \E i \in DOMAIN scored : scored[i][1] = k)

\* C4's case: two different keys of A are matched to the same key of B and
\* more entities are matched than B holds
C4_Witness ==
    /\ Len(matched_pkg) > Len(pkgs2)
    /\ \E i, j \in DOMAIN matched_to :
           /\ i # j
           /\ matched_pkg[i] # matched_pkg[j]
           /\ matched_to[i] = matched_to[j]

(***************************************************************************)
(* One call of a field similarity function, on arguments taken from a      *)
(* bounded set of inputs.                                                  *)
(***************************************************************************)

\* the longest systematically enumerated string, name (in segments) and
\* license expression (in tokens)
MaxStrLen == 2
MaxNameSegs == 2
MaxLicTokens == 2

RECURSIVE Flatten(_)
Flatten(seqs) == IF seqs = <<>> THEN <<>> ELSE Head(seqs) \o Flatten(Tail(seqs))

\* ' '.join(tokens)
RECURSIVE JoinSpace(_)
JoinSpace(tokens) ==
    IF tokens = <<>> THEN <<>>
    ELSE IF Len(tokens) = 1 THEN tokens[1]
    ELSE tokens[1] \o <<" ">> \o JoinSpace(Tail(tokens))

\* the values a field can hold when the document gives none
AbsentValues == {None, NONE, NOASSERTION, NE, EmptyStr}

\* arguments of equal_cmp, text_consistency and
\* longest_common_substring_consistency_score
TextInputs ==
    AbsentValues \cup SeqsUpTo({"a", "b", "A"}, 1, MaxStrLen) \cup
    { <<"a", "%", "2", "0", "b">>, <<"a", " ", "b">>, <<"n", "e">>,
      <<"a", "b", "a", "b">>, <<"O", "r", "g">> }

\* arguments of version_consistency
VersionInputs ==
    AbsentValues \cup SeqsUpTo({"1", "2", ".", "v"}, 1, MaxStrLen) \cup
    { <<"1", ".", "2", ".", "3">>, <<"1", ".", "2", ".", "4">>,
      <<"v", "1", ".", "2", ".", "3">>, <<"V", "1", ".", "2", ".", "3">>,
      <<"1", ".", "2", ".", "3", " ">>, <<"1", ".", "3", ".", "3">>,
      <<"2", ".", "2", ".", "3">>, <<"1", "5", ".", "4", ".", "6">>,
      <<"v", "1", "5", ".", "4", ".", "6">>,
      <<"1", "5", ".", "4", ".", "6", " ">>, <<"0", ".", "1">>,
      <<"5", ".", "1">>, <<"0">>, <<"0", "0">>, <<"1", ".", "a">>,
      <<"1", ".", "A">>, <<"1", ".", "b">>, <<" ">>,
      <<"1", ".", "2", ".", "1", "0">> }

\* arguments of purl_consistency
PurlInputs ==
    AbsentValues \cup SeqsUpTo({"p", "/"}, 1, MaxStrLen) \cup
    { Purl_a1,
      Purl_a2,
      <<"P", "K", "G", ":", "t", "/", "a", "@", "1">>,
      <<"p", "k", "g", ":", "t", "/", "n", "/", "a", "@", "1">>,
      <<"p", "k", "g", ":", "t">>, <<"p", "k", "g", ":", "t", "/", "a">>,
      <<"p", "k", "g", ":", "t", "/", "b", "@", "1">> }

\* arguments of compareName: names made of segments, and some more
NameSegments == {<<"g", "o", ":">>, <<" ">>, <<"x">>, <<"X">>}

NameInputs ==
    {Flatten(segs) : segs \in SeqsUpTo(NameSegments, 0, MaxNameSegs)} \cup
    { <<"n", "p", "m", ":", "L", "o", "d", "a", "s", "h">>,
      <<"l", "o", "d", "a", "s", "h">>, <<"n", "p", "m", ":">>,
      <<"G", "O", ":", "x">>, <<"g", " ", "o", ":", "x">>, <<"%", "2", "0">>,
      <<"x", "%", "2", "0">>, <<"c", "a", "r", "g", "o", ":", "x">>,
      <<"c", "a", "r", "x">>, <<"x", "%", "3", "A">> }

\* arguments of license_consistency: expressions of up to MaxLicTokens tokens,
\* the absent values, and lists
LicenseTokens == {<<"A">>, AND, OR}

LicenseInputs ==
    {LStr(JoinSpace(tokens)) : tokens \in SeqsUpTo(LicenseTokens, 1, MaxLicTokens)}
    \cup {LNone, LStr(NONE), LStr(NOASSERTION), LStr(NE), LStr(EmptyStr)}
    \cup {LStr(<<"B">>), LStr(<<"A", " ", "B">>),
          LStr(<<"A", " ", "A", "N", "D", " ", "B">>),
          LStr(<<"A", " ", " ", "A">>),
          LList(<<>>), LList(<<LStr(<<"A">>)>>),
          LList(<<LStr(<<"A">>), LStr(<<"A">>)>>),
          LList(<<LStr(<<"A", " ", "B">>), LNone>>),
          LList(<<LStr(<<"B">>), LStr(<<"A">>)>>),
          LStr(<<"A", " ", "A", "N", "D", " ", "B", " ", "A", "N", "D", " ", "C">>),
          LStr(<<"A", " ", "O", "R", " ", "B", " ", "A", "N", "D", " ", "C">>),
          LStr(<<"A", " ", "O", "R", " ", "B", " ", "O", "R", " ", "A">>),
          LDictExpression(<<"A", " ", "A", "N", "D", " ", "B">>),
          LDictLicense(<<LEntry("id", <<"A">>), LEntry("other_key", <<"B">>),
                         LEntry("name", <<"B">>)>>),
          LDictOther, LOther, LList(<<LStr(<<"A">>), LDictOther>>)}

FieldFunctions ==
    {"equal_cmp", "text_consistency", "longest_common_substring_consistency_score",
     "version_consistency", "purl_consistency", "license_consistency", "compareName",
     "deal_license"}

Inputs(f) ==
    CASE f \in {"equal_cmp", "text_consistency",
                "longest_common_substring_consistency_score"} -> TextInputs
      [] f = "version_consistency" -> VersionInputs
      [] f = "purl_consistency" -> PurlInputs
      [] f \in {"license_consistency", "deal_license"} -> LicenseInputs
      [] f = "compareName" -> NameInputs

InitFields ==
    /\ fn \in FieldFunctions
    /\ arg1 \in Inputs(fn)
    /\ arg2 \in IF fn = "deal_license" THEN {LNone} ELSE Inputs(fn)
    /\ result = RZero
    /\ pc = "call"
    /\ standard = "cdx"
    /\ threshold = Rat(2, 1)
    /\ pkgs1 = <<>>
    /\ pkgs2 = <<>>
    /\ k1 = 1
    /\ k2 = 1
    /\ best_score = Rat(-1, 1)
    /\ best_k2 = NoKey
    /\ scored = <<>>
    /\ stopped = FALSE
    /\ ret = <<NoKey, RZero>>
    /\ matched_pkg = <<>>
    /\ matched_to = <<>>
    /\ pkg_info = <<>>
    /\ statistic_info = <<>>
    /\ files1 = NotEvaluated
    /\ files2 = NotEvaluated
    /\ files_info = <<>>
    /\ row = NoRow

\* the call returns value
Return(value) ==
    /\ result' = value
    /\ pc' = "returned"
    /\ UNCHANGED <<docVars, matchVars, fn, arg1, arg2, fileVars, files_info, row>>

Call_equal_cmp ==
    pc = "call" /\ fn = "equal_cmp" /\ Return(equal_cmp(arg1, arg2))

Call_text_consistency ==
    pc = "call" /\ fn = "text_consistency" /\ Return(text_consistency(arg1, arg2))

Call_longest_common_substring ==
    /\ pc = "call"
    /\ fn = "longest_common_substring_consistency_score"
    /\ Return(longest_common_substring_consistency_score(arg1, arg2))

Call_version_consistency ==
    /\ pc = "call"
    /\ fn = "version_consistency"
    /\ Return(version_consistency(arg1, arg2))

Call_purl_consistency ==
    pc = "call" /\ fn = "purl_consistency" /\ Return(purl_consistency(arg1, arg2))

Call_license_consistency ==
    /\ pc = "call"
    /\ fn = "license_consistency"
    /\ Return(license_consistency(arg1, arg2))

Call_compareName ==
    pc = "call" /\ fn = "compareName" /\ Return(compareName(arg1, arg2))

\* deal_license(arg1): the token list, or the exception
Call_deal_license ==
    /\ pc = "call"
    /\ fn = "deal_license"
    /\ Return([raised |-> DealLicenseRaises(arg1),
               tokens |-> IF DealLicenseRaises(arg1) THEN <<>> ELSE deal_license(arg1)])

NextFields ==
    \/ Call_equal_cmp
    \/ Call_text_consistency
    \/ Call_longest_common_substring
    \/ Call_version_consistency
    \/ Call_purl_consistency
    \/ Call_license_consistency
    \/ Call_compareName
    \/ Call_deal_license

SpecFields == InitFields /\ [][NextFields]_vars

(***************************************************************************)
(* The field similarity functions' properties.                             *)
(***************************************************************************)

\* the call of function f has returned
FieldReturned(f) == pc = "returned" /\ fn = f

\* an absent value: None, 'NONE', 'NOASSERTION', 'NE' or the empty string
IsAbsent(v) == v \in AbsentValues

\* the six field similarity functions
SimilarityFunctions ==
    {"equal_cmp", "text_consistency", "longest_common_substring_consistency_score",
     "version_consistency", "purl_consistency", "license_consistency"}

\* C5: the value that each of the six field similarity functions returns is
\* in [0,1], license_consistency on token lists with a repeated token included
C5_ScoresInUnitInterval ==
    (pc = "returned" /\ fn \in SimilarityFunctions /\ result # Raised)
        => RLeq(RZero, result) /\ RLeq(result, ROne)

\* C6: version_consistency returns 0 when at least one argument is absent,
\* also when both are the same absent value
C6_AbsentVersionScoresZero ==
    (FieldReturned("version_consistency") /\ (IsAbsent(arg1) \/ IsAbsent(arg2)))
        => result = RZero

\* C7: purl_consistency returns 0 when either identifier is absent, also when
\* both are the same placeholder
C7_AbsentPurlScoresZero ==
    (FieldReturned("purl_consistency") /\ (IsAbsent(arg1) \/ IsAbsent(arg2)))
        => result = RZero

\* a version of three one-digit components
IsThreeDigits(v) ==
    /\ Len(v) = 5
    /\ isdigit(v[1]) /\ v[2] = "." /\ isdigit(v[3]) /\ v[4] = "." /\ isdigit(v[5])

\* C8: for two versions of three components with equal major and minor and
\* different one-character patch components, '1.2.3' and '1.2.4' among them,
\* version_consistency is exactly 0.9
C8_PatchDifferenceScoresNineTenths ==
    (/\ FieldReturned("version_consistency")
     /\ ~IsAbsent(arg1) /\ ~IsAbsent(arg2)
     /\ IsThreeDigits(arg1) /\ IsThreeDigits(arg2)
     /\ arg1[1] = arg2[1] /\ arg1[3] = arg2[3] /\ arg1[5] # arg2[5])
        => result = Rat(9, 10)

\* a version with all spaces and then one leading v or V removed, lower-cased
FoldVersion(v) ==
    LET w == RemoveChar(v, " ")
    IN  lower(IF w # <<>> /\ w[1] \in {"v", "V"} THEN Tail(w) ELSE w)

\* the two versions differ as written and one of them holds '15.4.6'
ManuallyDefined(a, b) ==
    /\ lower(a) # lower(b)
    /\ Contains(ManualVersion, a) \/ Contains(ManualVersion, b)

\* the statement of C9 as the claim has it: version_consistency is 1 for all
\* non-absent versions that are equal, case aside, after removing one leading
\* v or V and all spaces, no version treated specially
C9_EqualAfterFoldingAlways ==
    (/\ FieldReturned("version_consistency")
     /\ ~IsAbsent(arg1) /\ ~IsAbsent(arg2)
     /\ FoldVersion(arg1) = FoldVersion(arg2))
        => result = ROne

\* C9: version_consistency is 1 for all non-absent versions that are equal,
\* case aside, after removing one leading v or V and all spaces, except that
\* it is 0 when the two differ as written and one of them holds '15.4.6'
C9_EqualAfterFolding ==
    (/\ FieldReturned("version_consistency")
     /\ ~IsAbsent(arg1) /\ ~IsAbsent(arg2)
     /\ FoldVersion(arg1) = FoldVersion(arg2))
        => result = IF ManuallyDefined(arg1, arg2) THEN RZero ELSE ROne

\* C9's case: two versions that differ as written by a leading v score 1
C9_Witness ==
    /\ FieldReturned("version_consistency")
    /\ ~IsAbsent(arg1) /\ ~IsAbsent(arg2)
    /\ lower(arg1) # lower(arg2)
    /\ FoldVersion(arg1) = FoldVersion(arg2)
    /\ Len(FoldVersion(arg1)) > 1
    /\ result = ROne

UpperChar(c) ==
    IF \E i \in 1..Len(LowerChars) : LowerChars[i] = c
    THEN UpperChars[CHOOSE i \in 1..Len(LowerChars) : LowerChars[i] = c]
    ELSE c

upper(s) == [i \in 1..Len(s) |-> UpperChar(s[i])]

\* the scheme prefixes of compareName's pattern
SchemePrefixes == {SchemeTokens[k] : k \in 1..(Len(SchemeTokens) - 1)}

\* a name with no ':' and no '%' in it
PlainName(x) == \A i \in 1..Len(x) : x[i] \notin {":", "%"}

\* compareName gives the score already returned when arg1 is respelled:
\* in another letter case, and with spaces removed or added
RespelledScoresSame ==
    /\ compareName(lower(arg1), arg2) = result
    /\ compareName(upper(arg1), arg2) = result
    /\ compareName(RemoveChar(arg1, " "), arg2) = result
    /\ compareName(<<" ">> \o arg1 \o <<" ">>, arg2) = result

PrefixedScoresSame ==
    \A t \in SchemePrefixes : compareName(t \o arg1, arg2) = result

Lodash == <<"l", "o", "d", "a", "s", "h">>
NpmLodash == <<"n", "p", "m", ":", "L", "o", "d", "a", "s", "h">>

\* the statement of C10 as the claim has it: compareName(x, x) is 1 for
\* every name, those with an empty normalized form included, and compareName
\* is insensitive to letter case, to a scheme prefix and to spaces
C10_NameReflexiveAndInsensitiveAlways ==
    FieldReturned("compareName") =>
        /\ arg1 = arg2 => result = ROne
        /\ PrefixedScoresSame
        /\ RespelledScoresSame
        /\ (arg1 = NpmLodash /\ arg2 = Lodash) => result = ROne

\* C10: compareName(x, x) is 1 for every name whose normalized form is not
\* empty and 0 when it is empty; compareName is insensitive to a scheme
\* prefix of its pattern put before a name, and to letter case and spaces in
\* a name that holds no ':' and no '%'; compareName('npm:Lodash', 'lodash')
\* is 1
C10_NameReflexiveAndInsensitive ==
    FieldReturned("compareName") =>
        /\ arg1 = arg2 =>
               result = IF NormalizeName(arg1) = EmptyStr THEN RZero ELSE ROne
        /\ PrefixedScoresSame
        /\ PlainName(arg1) => RespelledScoresSame
        /\ (arg1 = NpmLodash /\ arg2 = Lodash) => result = ROne

\* C10's case: two names that differ in letter case, prefix or spaces score 1
C10_Witness ==
    /\ FieldReturned("compareName")
    /\ arg1 # arg2
    /\ lower(arg1) # lower(arg2)
    /\ result = ROne

(***************************************************************************)
(* The aggregators' properties.                                            *)
(***************************************************************************)

\* the number of components of a schema's score vector
Dimension(std) == IF std = "cdx" THEN 6 ELSE 10

\* a vector of n components, all zero
IsZeroVector(v, n) == Len(v) = n /\ \A j \in 1..n : v[j] = RZero

\* the aggregator has returned
Returned == pc \in {"done", "written"}

\* the last three numbers of statistic_info
PkgStatistics == SubSeq(statistic_info, Len(statistic_info) - 2, Len(statistic_info))

\* C11: when both documents hold a package collection and no entity of A is
\* matched, the aggregator returns the matched count 0 and a pkg_info of
\* exactly one all-zero vector of the schema's dimension (6 for cdx, 10 for
\* spdx), and the row's means are computed, without an error, as an all-zero
\* vector of that dimension
C11_NoMatchGivesOneZeroVector ==
    (Returned /\ CmpFlag(pkgs1, pkgs2) /\ matched_pkg = <<>>) =>
        /\ PkgStatistics = <<Len(pkgs1), Len(pkgs2), 0>>
        /\ Len(pkg_info) = 1
        /\ IsZeroVector(pkg_info[1], Dimension(standard))
        /\ pc = "written" =>
               /\ ~row.raised
               /\ IsZeroVector(row.pkg_info, Dimension(standard))

\* C11's case: candidates were scored for an entity of A, none reached the
\* threshold, and the row was made
C11_Witness ==
    /\ pc = "written"
    /\ CmpFlag(pkgs1, pkgs2)
    /\ matched_pkg = <<>>
    /\ scored # <<>>
    /\ ~row.raised

C13_NotEvaluatedGivesZeroVectors ==
    (Returned /\ ~CmpFlag(pkgs1, pkgs2)) =>
        /\ PkgStatistics = <<0, 0, 0>>
        /\ Len(pkg_info) >= 1
        /\ \A i \in 1..Len(pkg_info) :
               ~IsNumber(pkg_info[i])
                   /\ IsZeroVector(pkg_info[i], Dimension(standard))
        /\ pc = "written" =>
               /\ ~row.raised
               /\ IsZeroVector(row.pkg_info, Dimension(standard))

\* the score vectors of every pair of entities as they are computed
ComputedTable ==
    [std \in {"cdx", "spdx"} |-> [e1 \in EntityIds |-> [e2 \in EntityIds |->
        PairResult(std, e1, e2)]]]

NameMatchedFiles ==
    {key1 \in 1..Len(files1) : \E key2 \in 1..Len(files2) :
        FileNameMatches(FileEntities[files1[key1]], FileEntities[files2[key2]])}

\* C15: in an spdx comparison of two documents that both hold a file
\* collection of no more than 2000 files, each file of A whose normalized name
\* is that of some file of B gives one checksum vector in files_info, and the
\* file statistics are the number of files of A, of B, and of matched files
C15_MatchedFilesAreScored ==
    (/\ standard = "spdx"
     /\ pc # "start"
     /\ files1 # NotEvaluated /\ files2 # NotEvaluated
     /\ Len(files1) <= FileCap /\ Len(files2) <= FileCap
     /\ NameMatchedFiles # {}) =>
        /\ Len(files_info) = Cardinality(NameMatchedFiles)
        /\ SubSeq(statistic_info, 1, 3) =
               <<Len(files1), Len(files2), Cardinality(NameMatchedFiles)>>

\* C17: in a call of best_triple_match, once a candidate with the triple score
\* 3 is scored no further candidate is scored, and when the call has returned
\* under a threshold of at most 3 that candidate's key is the one returned
C17_PerfectScoreStopsScan ==
    /\ [][(pc = "scan" /\ \E i \in DOMAIN scored : scored[i][2] = Rat(3, 1))
              => (scored' = scored /\ k2' = k2 /\ pc' = "loop")]_vars
    /\ [](\A i \in DOMAIN scored :
              scored[i][2] = Rat(3, 1) =>
                  /\ i = Len(scored)
                  /\ stopped
                  /\ (MatchReturned /\ RLeq(threshold, Rat(3, 1)))
                         => ret = <<scored[i][1], Rat(3, 1)>>)

\* C17's case: a candidate scored 3, candidates after it were left unscanned,
\* and its key was returned
C17_Witness ==
    /\ MatchReturned
    /\ stopped
    /\ k2 <= Len(pkgs2)
    /\ ret = <<k2 - 1, Rat(3, 1)>>

\* a license value of an unrecognized shape: a dict with neither the key
\* 'expression' nor the key 'license', or a value that is no string, list or
\* dict
Unrecognized(license) == license.kind \in {"dict_other", "other"}

\* C16: license_consistency does not raise on a license value of an
\* unrecognized shape: it returns a score in [0,1]
C16_UnrecognizedLicenseIsScored ==
    (/\ FieldReturned("license_consistency")
     /\ Unrecognized(arg1) \/ Unrecognized(arg2)) =>
        /\ result # Raised
        /\ RLeq(RZero, result) /\ RLeq(result, ROne)

\* the two versions get to the comparison of their parts (lines 216-241)
ComparedByParts(a, b) ==
    /\ ~IsAbsent(a) /\ ~IsAbsent(b)
    /\ lower(a) # lower(b)
    /\ ~Contains(ManualVersion, a) /\ ~Contains(ManualVersion, b)
    /\ lower(NormalizeVersion(a)) # lower(NormalizeVersion(b))

\* the parts of a version between its dots
VersionParts(v) == split(NormalizeVersion(v), ".")

\* a string of digits
IsNumeric(part) == part # <<>> /\ \A i \in 1..Len(part) : isdigit(part[i])

\* the weight of the first position
FirstWeight(a, b) ==
    LET length == Min(Len(VersionParts(a)), Len(VersionParts(b)))
    IN  IF length = 1 THEN ROne ELSE IF length = 2 THEN Rat(8, 10) ELSE Rat(7, 10)

\* C18: in the comparison of the parts a position after the first is scored
\* only if every earlier position held identical parts: when the first parts
\* differ the later positions add nothing, so the score is at most the first
\* weight, and when the first parts are different numbers the score is not 1
C18_DifferenceStopsCascade ==
    (/\ FieldReturned("version_consistency")
     /\ ComparedByParts(arg1, arg2)
     /\ VersionParts(arg1)[1] # VersionParts(arg2)[1]) =>
        /\ RLeq(result, FirstWeight(arg1, arg2))
        /\ (/\ IsNumeric(VersionParts(arg1)[1])
            /\ IsNumeric(VersionParts(arg2)[1])
            /\ int(VersionParts(arg1)[1]) # int(VersionParts(arg2)[1]))
               => result # ROne

\* 1 - |a - b| / max(a, b), the relative difference being 0 when both are 0
CloseNumbersScore(a, b) ==
    IF Max(a, b) = 0 THEN ROne
    ELSE RAdd(ROne, RMul(Rat(-1, 1), Rat(Abs(a - b), Max(a, b))))

\* C19: two versions of one part each, different strings of digits a and b,
\* score 1 - |a - b| / max(a, b), and the full 1 when both numbers are zero
C19_NumericPartsScoreByCloseness ==
    (/\ FieldReturned("version_consistency")
     /\ ComparedByParts(arg1, arg2)
     /\ IsNumeric(NormalizeVersion(arg1))
     /\ IsNumeric(NormalizeVersion(arg2))) =>
        result = CloseNumbersScore(int(NormalizeVersion(arg1)),
                                   int(NormalizeVersion(arg2)))

\* an expression of license tokens with an operator between each two
WellFormedExpression(tokens) ==
    /\ Len(tokens) % 2 = 1
    /\ \A i \in 1..Len(tokens) : (i % 2 = 0) <=> (tokens[i] \in {AND, OR})

\* C20: for a license string that is an expression of tokens joined by
\* operators, however many, the list deal_license returns holds no 'AND' and
\* no 'OR'
C20_OperatorsAreDropped ==
    (/\ FieldReturned("deal_license")
     /\ arg1.kind = "str"
     /\ WellFormedExpression(split(arg1.str, " "))
     /\ Len(split(arg1.str, " ")) > 1) =>
        /\ ~result.raised
        /\ \A i \in 1..Len(result.tokens) : result.tokens[i] \notin {AND, OR}

(***************************************************************************)
(* compareName and the scheme prefix.                                      *)
(***************************************************************************)

\* a name without the scheme prefixes, and the spaces, that it starts with
RECURSIVE StripSchemePrefix(_)
StripSchemePrefix(name) ==
    IF \E k \in DOMAIN SchemeTokens : startswith(name, SchemeTokens[k])
    THEN LET k == CHOOSE x \in DOMAIN SchemeTokens : startswith(name, SchemeTokens[x])
         IN  StripSchemePrefix(SubSeq(name, Len(SchemeTokens[k]) + 1, Len(name)))
    ELSE name

\* a name URL-decoded, without the scheme prefixes at its start, without
\* spaces, in lower case
PrefixFreeName(name) ==
    lower(RemoveChar(StripSchemePrefix(unquote(name)), " "))

\* C21: compareName(a, b) is 1 only if a and b are equal after URL-decoding,
\* removing the scheme prefixes at the start of the name, removing spaces and
\* lower-casing; two names that differ elsewhere, such as by a scheme token
\* in the middle of one of them, score 0
C21_NameMatchIsExactUpToPrefix ==
    (FieldReturned("compareName") /\ PrefixFreeName(arg1) # PrefixFreeName(arg2))
        => result = RZero

(***************************************************************************)
(* The identifier scores of a matched pair of spdx entities.               *)
(***************************************************************************)

\* the identifier lists of the entity of A, and of the entity of B, of the
\* i-th matched pair
RefsOfA(i) == external_ref_proc(Entity("spdx", pkgs1[matched_pkg[i]]).externalRefs)
RefsOfB(i) == external_ref_proc(Entity("spdx", pkgs2[matched_to[i]]).externalRefs)

\* C22: in spdx_consistency the cpe_score and the purl_score of every matched
\* pair, components 6 and 7 of its vector, are in [0,1], whatever the two
\* identifier lists hold, and are 0 when one of the two lists is empty
C22_IdentifierScoresInUnitInterval ==
    (standard = "spdx" /\ CmpFlag(pkgs1, pkgs2)) =>
        \A i \in 1..Len(matched_pkg) :
            /\ RLeq(RZero, pkg_info[i][6]) /\ RLeq(pkg_info[i][6], ROne)
            /\ RLeq(RZero, pkg_info[i][7]) /\ RLeq(pkg_info[i][7], ROne)
            /\ (RefsOfA(i).cpe_list = <<>> \/ RefsOfB(i).cpe_list = <<>>)
                   => pkg_info[i][6] = RZero
            /\ (RefsOfA(i).purl_list = <<>> \/ RefsOfB(i).purl_list = <<>>)
                   => pkg_info[i][7] = RZero

(***************************************************************************)
(* The bookkeeping of the aggregator's loop.                               *)
(***************************************************************************)

\* C23: after every iteration of the loop over the entities of A, pkg_info
\* holds as many vectors as there are matched keys of A, and no key of A is
\* in the matched list twice; on return the matched count, the last of the
\* statistics, is at most the number of entities of A, and statistic_info
\* has 3 entries for cdx and 6 for spdx, also when a collection is 'NE'
C23_LoopBookkeeping ==
    /\ (pc = "loop" /\ CmpFlag(pkgs1, pkgs2)) => Len(pkg_info) = Len(matched_pkg)
    /\ \A i, j \in 1..Len(matched_pkg) : matched_pkg[i] = matched_pkg[j] => i = j
    /\ Returned =>
           /\ Len(statistic_info) = (IF standard = "cdx" THEN 3 ELSE 6)
           /\ CmpFlag(pkgs1, pkgs2) =>
                  /\ PkgStatistics[3] = Len(matched_pkg)
                  /\ PkgStatistics[3] <= Len(pkgs1)

\* C23's case: an spdx comparison has returned after two iterations, one with
\* a match and one without
C23_Witness ==
    /\ Returned
    /\ standard = "spdx"
    /\ CmpFlag(pkgs1, pkgs2)
    /\ Len(pkgs1) = 2
    /\ Len(matched_pkg) = 1
    /\ Len(statistic_info) = 6

=============================================================================
